---- MODULE Spec2Model ----
(***************************************************************************)
(* Model of the acquisition-scheme subsystem of dmipy                      *)
(* (src/microstruktur/core/acquisition_scheme.py).                         *)
(*                                                                         *)
(* Numbers are exact integers in scaled units:                             *)
(*   - b-values, min_b_shell_distance, b0_threshold in units of 1e6 s/m^2  *)
(*     (the defaults 50e6 and 10e6 are 50 and 10);                         *)
(*   - gradient direction components in units of 1e-3, so that the         *)
(*     unit-norm tolerance 0.001 is one unit;                              *)
(*   - means are exact fractions <<numerator, denominator>>.               *)
(* A numpy array is a record [isfloat, shape, data]: shape is the tuple of *)
(* dimensions, data the row-major flattened content; a Python float is a   *)
(* record with isfloat = TRUE and shape <<>>, a Python int a record with   *)
(* isfloat = FALSE and shape <<>>.                                         *)
(***************************************************************************)
EXTENDS Integers, Sequences, FiniteSets, TLC

VARIABLES pc, kind, args, unified, conv, scheme, err, call

vars == <<pc, kind, args, unified, conv, scheme, err, call>>

(***************************************************************************)
(* Values of the variables where a step has not happened.                  *)
(***************************************************************************)
NotUnified == [done |-> FALSE]

NotConverted == [done |-> FALSE]

NoScheme == [built |-> FALSE]

NoCall == [active |-> FALSE]

(***************************************************************************)
(* Bounds of the model.                                                    *)
(***************************************************************************)
MaxCheckLen == 2

MaxShellLen == 5

MaxN == 4

MaxVoxels == 2

MaxShMargin == 1

(***************************************************************************)
(* numpy arrays.                                                           *)
(***************************************************************************)
Arr1(s) == [isfloat |-> FALSE, shape |-> <<Len(s)>>, data |-> s]

Arr2(n, m, s) == [isfloat |-> FALSE, shape |-> <<n, m>>, data |-> s]

PyFloat(v) == [isfloat |-> TRUE, shape |-> <<>>, data |-> <<v>>]

PyInt(v) == [isfloat |-> FALSE, shape |-> <<>>, data |-> <<v>>]

\* the object is a numpy array: it has a copy method
IsArray(a) == ~ a.isfloat /\ a.shape # <<>>

ndim(a) == Len(a.shape)

len(a) == a.shape[1]

size(a) == Len(a.data)

SeqRange(s) == {s[i] : i \in 1..Len(s)}

MinOfSet(S) == CHOOSE x \in S : \A y \in S : x <= y

MaxOfSet(S) == CHOOSE x \in S : \A y \in S : x >= y

np_min(a) == MinOfSet(SeqRange(a.data))

\* row i (1-based) of a two-dimensional array
Row(a, i) == [k \in 1..a.shape[2] |-> a.data[(i - 1) * a.shape[2] + k]]

RECURSIVE SumSq(_)
SumSq(v) == IF Len(v) = 0 THEN 0 ELSE v[1] * v[1] + SumSq(Tail(v))

\* a tolerance test that accepts a deviation of exactly 0.001
NormWithinToleranceInclusive(v) ==
    999 * 999 <= SumSq(v) /\ SumSq(v) <= 1001 * 1001

\* abs(np.linalg.norm(row) - 1.) < 0.001, components in units of 1e-3:
\* 999 < sqrt(SumSq) < 1001
NormWithinTolerance(v) == 999 * 999 < SumSq(v) /\ SumSq(v) < 1001 * 1001

(***************************************************************************)
(* check_acquisition_scheme: the error it raises ("" when it returns).     *)
(* np.min of an empty array raises numpy's own ValueError.                 *)
(***************************************************************************)
NoError == ""

ValidationErrors ==
    {"primary_ndim", "length_gradient_directions", "length_delta_Delta",
     "delta_Delta_ndim", "delta_Delta_sign", "gradient_directions_shape",
     "primary_sign", "unit_vectors"}

\* the validator with the shape of gradient_directions tested before the
\* sign of delta and Delta
check_gradient_directions_shape_first(bqg_values, gradient_directions, delta, Delta) ==
    IF ndim(bqg_values) > 1 THEN "primary_ndim"
    ELSE IF len(bqg_values) # len(gradient_directions)
        THEN "length_gradient_directions"
    ELSE IF len(bqg_values) # len(delta) \/ len(bqg_values) # len(Delta)
        THEN "length_delta_Delta"
    ELSE IF ndim(delta) > 1 \/ ndim(Delta) > 1 THEN "delta_Delta_ndim"
    ELSE IF ndim(gradient_directions) # 2 \/ gradient_directions.shape[2] # 3
        THEN "gradient_directions_shape"
    ELSE IF size(delta) = 0 THEN "numpy_zero_size_array"
    ELSE IF np_min(delta) < 0 THEN "delta_Delta_sign"
    ELSE IF size(Delta) = 0 THEN "numpy_zero_size_array"
    ELSE IF np_min(Delta) < 0 THEN "delta_Delta_sign"
    ELSE IF size(bqg_values) = 0 THEN "numpy_zero_size_array"
    ELSE IF np_min(bqg_values) < 0 THEN "primary_sign"
    ELSE IF ~ \A i \in 1..len(gradient_directions) :
                NormWithinTolerance(Row(gradient_directions, i))
        THEN "unit_vectors"
    ELSE NoError

check_acquisition_scheme(bqg_values, gradient_directions, delta, Delta) ==
    IF ndim(bqg_values) > 1 THEN "primary_ndim"
    ELSE IF len(bqg_values) # len(gradient_directions)
        THEN "length_gradient_directions"
    ELSE IF len(bqg_values) # len(delta) \/ len(bqg_values) # len(Delta)
        THEN "length_delta_Delta"
    ELSE IF ndim(delta) > 1 \/ ndim(Delta) > 1 THEN "delta_Delta_ndim"
    ELSE IF size(delta) = 0 THEN "numpy_zero_size_array"
    ELSE IF np_min(delta) < 0 THEN "delta_Delta_sign"
    ELSE IF size(Delta) = 0 THEN "numpy_zero_size_array"
    ELSE IF np_min(Delta) < 0 THEN "delta_Delta_sign"
    ELSE IF ndim(gradient_directions) # 2 \/ gradient_directions.shape[2] # 3
        THEN "gradient_directions_shape"
    ELSE IF size(bqg_values) = 0 THEN "numpy_zero_size_array"
    ELSE IF np_min(bqg_values) < 0 THEN "primary_sign"
    ELSE IF ~ \A i \in 1..len(gradient_directions) :
                NormWithinTolerance(Row(gradient_directions, i))
        THEN "unit_vectors"
    ELSE NoError

RECURSIVE Flatten(_)
Flatten(rows) == IF Len(rows) = 0 THEN <<>> ELSE rows[1] \o Flatten(Tail(rows))

Vectors(S, lo, hi) == UNION {[1..n -> S] : n \in lo..hi}

(***************************************************************************)
(* Exact means: a fraction <<numerator, denominator>> in lowest terms.     *)
(***************************************************************************)
RECURSIVE Gcd(_, _)
Gcd(a, b) == IF b = 0 THEN a ELSE Gcd(b, a % b)

Frac(num, den) ==
    LET g == Gcd(num, den) IN IF g = 0 THEN <<0, 1>> ELSE <<num \div g, den \div g>>

FracLess(f, g) == f[1] * g[2] < g[1] * f[2]

\* f <= x for an integer x
FracLeqInt(f, x) == f[1] <= x * f[2]

RECURSIVE SumSeq(_)
SumSeq(s) == IF Len(s) = 0 THEN 0 ELSE s[1] + SumSeq(Tail(s))

\* a[mask]: the entries of a one-dimensional sequence at the positions of
\* mask, in their order
RECURSIVE MaskedFrom(_, _, _)
MaskedFrom(s, mask, i) ==
    IF i > Len(s) THEN <<>>
    ELSE (IF i \in mask THEN <<s[i]>> ELSE <<>>) \o MaskedFrom(s, mask, i + 1)

MaskedValues(s, mask) == MaskedFrom(s, mask, 1)

np_mean(s) == Frac(SumSeq(s), Len(s))

Abs(x) == IF x < 0 THEN -x ELSE x

(***************************************************************************)
(* scipy's linkage (default method: single linkage on the Euclidean        *)
(* distance) followed by fcluster(criterion='distance'): the closest two   *)
(* clusters are merged as long as their distance is at most the threshold. *)
(* Clusters are sets of positions of the input.                            *)
(***************************************************************************)
\* complete linkage: the distance of the farthest members
CompleteLinkageDistance(bvalues, A, B) ==
    MaxOfSet({Abs(bvalues[a] - bvalues[b]) : a \in A, b \in B})

SingleLinkageDistance(bvalues, A, B) ==
    MinOfSet({Abs(bvalues[a] - bvalues[b]) : a \in A, b \in B})

RECURSIVE MergeClusters(_, _, _)
MergeClusters(bvalues, clusters, max_distance) ==
    LET pairs == {p \in clusters \X clusters : p[1] # p[2]}
    IN  IF pairs = {} THEN clusters
        ELSE LET dmin == MinOfSet({SingleLinkageDistance(bvalues, p[1], p[2]) :
                                      p \in pairs})
                 best == CHOOSE p \in pairs :
                            SingleLinkageDistance(bvalues, p[1], p[2]) = dmin
             IN  IF dmin > max_distance THEN clusters
                 ELSE MergeClusters(bvalues,
                                    (clusters \ {best[1], best[2]})
                                        \cup {best[1] \cup best[2]},
                                    max_distance)

FlatClusters(bvalues, max_distance) ==
    MergeClusters(bvalues, {{i} : i \in 1..Len(bvalues)}, max_distance)

\* linkage raises ValueError on fewer than two observations (the condensed
\* distance matrix is empty)
LinkageRaises(bvalues) == Len(bvalues) < 2

\* The arrays fcluster may return: each flat cluster gets one label of
\* 1..k; which cluster gets which label follows the dendrogram and is not
\* tied to the b-values.
FclusterResults(bvalues, max_distance) ==
    LET flat == FlatClusters(bvalues, max_distance)
        k == Cardinality(flat)
        \* the clusters counted by their first member
        rank == [i \in 1..Len(bvalues) |->
                    LET A == CHOOSE X \in flat : i \in X
                    IN  Cardinality({X \in flat : MinOfSet(X) <= MinOfSet(A)})]
    IN  {[i \in 1..Len(bvalues) |-> label[rank[i]]] :
            label \in Permutations(1..k)}

(***************************************************************************)
(* calculate_shell_bvalues_and_indices after the clustering: the clusters  *)
(* are ordered by their mean b-value and renumbered from 0.                *)
(***************************************************************************)
ClusterMean(bvalues, clusters, ind) ==
    np_mean(MaskedValues(bvalues, {i \in 1..Len(bvalues) : clusters[i] = ind}))

\* the cluster labels by descending mean
RECURSIVE ArgsortByMeanDescending(_, _)
ArgsortByMeanDescending(means, labels) ==
    IF labels = {} THEN <<>>
    ELSE LET first == CHOOSE l \in labels : \A m \in labels :
                          \/ FracLess(means[m], means[l])
                          \/ means[l] = means[m] /\ l <= m
         IN  <<first>> \o ArgsortByMeanDescending(means, labels \ {first})

\* cluster_bvalues[:, 0].argsort(): the cluster labels by ascending mean
RECURSIVE ArgsortByMean(_, _)
ArgsortByMean(means, labels) ==
    IF labels = {} THEN <<>>
    ELSE LET first == CHOOSE l \in labels : \A m \in labels :
                          \/ FracLess(means[l], means[m])
                          \/ means[l] = means[m] /\ l <= m
         IN  <<first>> \o ArgsortByMean(means, labels \ {first})

ShellsOfClusters(bvalues, clusters) ==
    LET cluster_bvalues == [ind \in SeqRange(clusters) |->
                               ClusterMean(bvalues, clusters, ind)]
        ordered_cluster_indices ==
            ArgsortByMean(cluster_bvalues, SeqRange(clusters))
        position == [ind \in SeqRange(clusters) |->
                        CHOOSE i \in 1..Len(ordered_cluster_indices) :
                            ordered_cluster_indices[i] = ind]
    IN  [shell_indices |-> [p \in 1..Len(bvalues) |-> position[clusters[p]] - 1],
         shell_bvalues |->
            [i \in 1..Len(ordered_cluster_indices) |->
                cluster_bvalues[ordered_cluster_indices[i]]]]

\* the results calculate_shell_bvalues_and_indices can return, one for
\* every array fcluster may produce
calculate_shell_bvalues_and_indices(bvalues, max_distance) ==
    {ShellsOfClusters(bvalues, clusters) :
        clusters \in FclusterResults(bvalues, max_distance)}

(***************************************************************************)
(* gradient_conversions (q = gamma delta G, b = (2 pi q)^2 tau with        *)
(* tau = Delta - delta / 3), in units where gamma = 1/6 and                *)
(* 4 pi^2 / 3 = 1, so that G = 6 q / delta and b = q^2 (3 Delta - delta);  *)
(* results are rounded down to the unit.  They are applied elementwise; a  *)
(* float broadcasts.                                                       *)
(***************************************************************************)
RECURSIVE ISqrtFrom(_, _)
ISqrtFrom(x, r) == IF (r + 1) * (r + 1) > x THEN r ELSE ISqrtFrom(x, r + 1)

ISqrt(x) == ISqrtFrom(x, 0)

Broadcast(a, n) == IF IsArray(a) THEN a.data ELSE [i \in 1..n |-> a.data[1]]

b_from_q(q, delta, Delta) ==
    [i \in 1..Len(q) |-> q[i] * q[i] * (3 * Delta[i] - delta[i])]

q_from_b(b, delta, Delta) ==
    [i \in 1..Len(b) |-> ISqrt(b[i] \div (3 * Delta[i] - delta[i]))]

g_from_q(q, delta) == [i \in 1..Len(q) |-> (6 * q[i]) \div delta[i]]

q_from_g(g, delta) == [i \in 1..Len(g) |-> (g[i] * delta[i]) \div 6]

g_from_b(b, delta, Delta) == g_from_q(q_from_b(b, delta, Delta), delta)

b_from_g(g, delta, Delta) == b_from_q(q_from_g(g, delta), delta, Delta)

(***************************************************************************)
(* unify_length_reference_delta_Delta                                      *)
(***************************************************************************)
np_tile(x, n) == Arr1([i \in 1..n |-> x])

\* isinstance(x, float)
IsFloat(x) == x.isfloat

\* delta.copy() of an object that is neither a float nor an array raises
\* AttributeError; the result has done = FALSE and the error then
unify_length_reference_delta_Delta(reference_array, delta, Delta) ==
    IF (~ IsFloat(delta) /\ ~ IsArray(delta)) \/ (~ IsFloat(Delta) /\ ~ IsArray(Delta))
    THEN [done |-> FALSE, raised |-> "no_attribute_copy"]
    ELSE [done |-> TRUE,
          raised |-> NoError,
          delta_ |-> IF IsFloat(delta)
                     THEN np_tile(delta.data[1], len(reference_array))
                     ELSE delta,
          Delta_ |-> IF IsFloat(Delta)
                     THEN np_tile(Delta.data[1], len(reference_array))
                     ELSE Delta]

(***************************************************************************)
(* MipyAcquisitionScheme.__init__                                          *)
(***************************************************************************)
PairLess(p, q) == p[1] < q[1] \/ (p[1] = q[1] /\ p[2] < q[2])

RECURSIVE SortedPairs(_)
SortedPairs(S) ==
    IF S = {} THEN <<>>
    ELSE LET least == CHOOSE p \in S : \A q \in S : p = q \/ PairLess(p, q)
         IN  <<least>> \o SortedPairs(S \ {least})

\* the distinct rows in the order of their first occurrence
RECURSIVE FirstAppearancePairs(_, _)
FirstAppearancePairs(deltas, seen) ==
    IF Len(deltas) = 0 THEN <<>>
    ELSE IF deltas[1] \in seen THEN FirstAppearancePairs(Tail(deltas), seen)
    ELSE <<deltas[1]>> \o FirstAppearancePairs(Tail(deltas), seen \cup {deltas[1]})

UnsortedUnique(deltas) == FirstAppearancePairs(deltas, {})

\* np.unique(deltas, axis=0): the distinct rows, sorted lexicographically
np_unique_rows(deltas) == SortedPairs(SeqRange(deltas))

\* rows that agree in the first column only
DeltaMaskFirstColumn(deltas, unique_deltas_) ==
    {i \in 1..Len(deltas) : deltas[i][1] = unique_deltas_[1]}

\* np.all(deltas == unique_deltas_, axis=1)
DeltaMask(deltas, unique_deltas_) ==
    {i \in 1..Len(deltas) : deltas[i] = unique_deltas_}

MaxIndexWithoutIncrement(shell_indices) == MaxOfSet(SeqRange(shell_indices))

\* max(self.shell_indices + 1)
NextMaxIndex(shell_indices) == MaxOfSet(SeqRange(shell_indices)) + 1

\* one pass of the loop over unique_deltas for group k, for one result of
\* the classifier
ShellLoopStep(acc, delta_mask, result) ==
    LET shell_indices ==
            [i \in 1..Len(acc.shell_indices) |->
                IF i \in delta_mask
                THEN result.shell_indices[Cardinality({j \in delta_mask : j <= i})]
                         + acc.max_index
                ELSE acc.shell_indices[i]]
    IN  [raised |-> FALSE,
         shell_indices |-> shell_indices,
         shell_bvalues |-> Append(acc.shell_bvalues, result.shell_bvalues),
         max_index |-> NextMaxIndex(shell_indices),
         calls |-> acc.calls + 1]

\* the loop over unique_deltas from group k on: the set of its outcomes
RECURSIVE ShellLoop(_, _, _, _, _, _)
ShellLoop(bvalues, deltas, unique_deltas, k, min_b_shell_distance, acc) ==
    IF k > Len(unique_deltas) THEN {acc}
    ELSE LET delta_mask == DeltaMask(deltas, unique_deltas[k])
             masked_bvals == MaskedValues(bvalues, delta_mask)
         IN  IF LinkageRaises(masked_bvals)
             THEN {[acc EXCEPT !.raised = TRUE, !.calls = acc.calls + 1]}
             ELSE UNION {ShellLoop(bvalues, deltas, unique_deltas, k + 1,
                                   min_b_shell_distance,
                                   ShellLoopStep(acc, delta_mask, result)) :
                            result \in calculate_shell_bvalues_and_indices(
                                           masked_bvals, min_b_shell_distance)}

\* np.array(self.shell_bvalues) is a two-dimensional array, which ravel
\* flattens, only when every group has the same number of shells
IsRagged(shell_bvalues) ==
    \E i, j \in 1..Len(shell_bvalues) : Len(shell_bvalues[i]) # Len(shell_bvalues[j])

LastIndices(shell_indices) ==
    [ind \in 1..(MaxOfSet(SeqRange(shell_indices)) + 1) |->
        MaxOfSet({i \in 1..Len(shell_indices) : shell_indices[i] = ind - 1})]

\* np.argmax(self.shell_indices == ind) for ind in 0..max: the first
\* position of every shell index (position 1 for an index not in use)
FirstIndices(shell_indices) ==
    [ind \in 1..(MaxOfSet(SeqRange(shell_indices)) + 1) |->
        IF \E i \in 1..Len(shell_indices) : shell_indices[i] = ind - 1
        THEN MinOfSet({i \in 1..Len(shell_indices) : shell_indices[i] = ind - 1})
        ELSE 1]

Take(s, indices) == [i \in 1..Len(indices) |-> s[indices[i]]]

(***************************************************************************)
(* get_sh_order_from_bval.  A b-value handed to it is written                *)
(* [whole, micro, rest]: whole * 1e6 + micro + rest s/m^2 with               *)
(* 0 <= micro < 1e6 and 0 <= rest < 1 (rest an exact fraction).  The finite  *)
(* entries of the table bvals are whole numbers of s/m^2,                    *)
(* whole * 1e6 + micro; its last entry is np.inf.                            *)
(***************************************************************************)
Million == 1000000

Finite(whole, micro) == [inf |-> FALSE, whole |-> whole, micro |-> micro]

Infinity == [inf |-> TRUE, whole |-> 0, micro |-> 0]

ShBreakpoints ==
    <<Finite(202, 20202), Finite(707, 70707), Finite(1212, 121210),
      Finite(2525, 252530), Finite(3131, 313130), Finite(5353, 535350),
      Infinity>>

\* np.arange(2, 15, 2)
ShOrders == [k \in 1..7 |-> 2 * k]

\* a b-value of the model (a fraction in units of 1e6 s/m^2) in s/m^2
SIValue(fr) ==
    LET scaled == (fr[1] % fr[2]) * Million
    IN  [whole |-> fr[1] \div fr[2],
         micro |-> scaled \div fr[2],
         rest |-> Frac(scaled % fr[2], fr[2])]

\* a comparison that also holds for a b-value equal to the table entry
BreakpointGreaterOrEqual(bp, bval) ==
    \/ bp.inf
    \/ bval.whole < bp.whole
    \/ /\ bval.whole = bp.whole
       /\ \/ bval.micro < bp.micro
          \/ bval.micro = bp.micro /\ bval.rest[1] = 0

\* bvals > bval, for one entry of the table
BreakpointGreater(bp, bval) ==
    \/ bp.inf
    \/ bval.whole < bp.whole
    \/ bval.whole = bp.whole /\ bval.micro < bp.micro

\* np.argmax of a boolean array: the first position that is True, the first
\* position of all when none is
np_argmax(S) == IF S = {} THEN 1 ELSE MinOfSet(S)

get_sh_order_from_bval(bval) ==
    ShOrders[np_argmax({k \in 1..Len(ShBreakpoints) :
                            BreakpointGreater(ShBreakpoints[k], bval)})]

(***************************************************************************)
(* MipyAcquisitionScheme.__init__: the fields                              *)
(***************************************************************************)
\* self.bvalues <= b0_threshold
B0Mask(bvalues, b0_threshold) ==
    [i \in 1..Len(bvalues) |-> bvalues[i] <= b0_threshold]

\* np.sum(self.b0_mask)
CountTrue(mask) == Cardinality({i \in 1..Len(mask) : mask[i]})

\* a test that also holds for a single b0 measurement
NoB0MeasurementsAtMostOne(b0_mask) == CountTrue(b0_mask) <= 1

\* sum(self.b0_mask) == 0: the condition of the warning
NoB0Measurements(b0_mask) == CountTrue(b0_mask) = 0

\* a test that sends every scheme through the shell loop
MoreThanZeroMeasurements(number_of_measurements) == number_of_measurements > 0

\* self.number_of_measurements > 1
MoreThanOneMeasurement(number_of_measurements) == number_of_measurements > 1

\* the attributes that are the very array object of a constructor
\* parameter (an assignment binds the object, it does not copy it), with
\* the parameter's name: the attributes set from the parameters ...
ParameterObjects ==
    [bvalues |-> "bvalues", gradient_directions |-> "gradient_directions",
     qvalues |-> "qvalues", gradient_strengths |-> "gradient_strengths",
     delta |-> "delta", Delta |-> "Delta"]

\* ... and, for a single measurement, the shell attributes set from them
SingleMeasurementObjects ==
    [bvalues |-> "bvalues", gradient_directions |-> "gradient_directions",
     qvalues |-> "qvalues", gradient_strengths |-> "gradient_strengths",
     delta |-> "delta", Delta |-> "Delta",
     shell_bvalues |-> "bvalues", shell_qvalues |-> "qvalues",
     shell_gradient_strengths |-> "gradient_strengths",
     shell_delta |-> "delta", shell_Delta |-> "Delta"]

\* the fields set before the shells are formed
SchemeBase(bvalues, gradient_directions, qvalues, gradient_strengths, delta, Delta, min_b_shell_distance, b0_threshold) ==
    [built |-> TRUE,
     min_b_shell_distance |-> min_b_shell_distance,
     b0_threshold |-> b0_threshold,
     bvalues |-> bvalues,
     b0_mask |-> B0Mask(bvalues, b0_threshold),
     number_of_b0s |-> CountTrue(B0Mask(bvalues, b0_threshold)),
     number_of_measurements |-> Len(bvalues),
     gradient_directions |-> gradient_directions,
     qvalues |-> qvalues,
     gradient_strengths |-> gradient_strengths,
     delta |-> delta,
     Delta |-> Delta,
     same_object |-> ParameterObjects]

WithFields(r, extra) ==
    [f \in DOMAIN r \cup DOMAIN extra |-> IF f \in DOMAIN extra THEN extra[f] ELSE r[f]]

\* np.unique(self.shell_indices[~self.b0_mask]): the shell indices of the
\* measurements that are not b0 measurements
UniqueDwiIndices(shell_indices, b0_mask) ==
    {shell_indices[i] : i \in {j \in 1..Len(shell_indices) : ~ b0_mask[j]}}

\* the spherical-harmonics fields (lines 91-101) and the warning, added to a
\* scheme s whose shells are formed; the matrix of a shell is recorded by
\* its order and the measurements whose directions it is computed from
WithShFields(s) ==
    LET unique_dwi_indices == UniqueDwiIndices(s.shell_indices, s.b0_mask)
        order(ind) == get_sh_order_from_bval(SIValue(s.shell_bvalues[ind + 1]))
    IN  WithFields(s,
          [unique_dwi_indices |-> unique_dwi_indices,
           shell_sh_orders |->
               [k \in 1..Len(s.shell_bvalues) |->
                   IF (k - 1) \in unique_dwi_indices THEN order(k - 1) ELSE 0],
           shell_sh_matrices |->
               [ind \in unique_dwi_indices |->
                   [sh_order |-> order(ind),
                    shell_mask |-> {i \in 1..Len(s.shell_indices) :
                                       s.shell_indices[i] = ind}]],
           warned |-> NoB0Measurements(s.b0_mask)])

\* the outcomes of the constructor: a record with raised = "", the scheme
\* and the number of calls of the shell classifier, or with the error raised
MipyAcquisitionScheme(bvalues, gradient_directions, qvalues, gradient_strengths, delta, Delta, min_b_shell_distance, b0_threshold) ==
    LET base == SchemeBase(bvalues, gradient_directions, qvalues,
                           gradient_strengths, delta, Delta,
                           min_b_shell_distance, b0_threshold)
        deltas == [i \in 1..Len(delta) |-> <<delta[i], Delta[i]>>]
    IN  IF MoreThanOneMeasurement(base.number_of_measurements)
        THEN {IF loop.raised
              THEN [raised |-> "linkage_single_observation", scheme |-> NoScheme,
                    classifier_calls |-> loop.calls]
              ELSE IF IsRagged(loop.shell_bvalues)
              THEN [raised |-> "shell_bvalues_ragged", scheme |-> NoScheme,
                    classifier_calls |-> loop.calls]
              ELSE LET shell_bvalues == Flatten(loop.shell_bvalues)
                       first_indices == FirstIndices(loop.shell_indices)
                   IN  [raised |-> NoError,
                        classifier_calls |-> loop.calls,
                        scheme |-> WithShFields(WithFields(base,
                          [shell_indices |-> loop.shell_indices,
                           shell_bvalues |-> shell_bvalues,
                           shell_b0_mask |->
                               [i \in 1..Len(shell_bvalues) |->
                                   FracLeqInt(shell_bvalues[i], b0_threshold)],
                           shell_qvalues |-> Take(qvalues, first_indices),
                           shell_gradient_strengths |->
                               Take(gradient_strengths, first_indices),
                           shell_delta |-> Take(delta, first_indices),
                           shell_Delta |-> Take(Delta, first_indices)]))] :
                 loop \in ShellLoop(bvalues, deltas, np_unique_rows(deltas), 1,
                                    min_b_shell_distance,
                                    [raised |-> FALSE,
                                     shell_indices |-> [i \in 1..Len(bvalues) |-> 0],
                                     shell_bvalues |-> <<>>,
                                     max_index |-> 0,
                                     calls |-> 0])}
        ELSE {[raised |-> NoError,
               classifier_calls |-> 0,
               scheme |-> WithShFields(WithFields(base,
                 [shell_indices |-> <<0>>,
                  shell_bvalues |-> <<Frac(bvalues[1], 1)>>,
                  shell_b0_mask |-> <<~ (bvalues[1] > b0_threshold)>>,
                  shell_qvalues |-> qvalues,
                  shell_gradient_strengths |-> gradient_strengths,
                  shell_delta |-> delta,
                  shell_Delta |-> Delta,
                  same_object |-> SingleMeasurementObjects]))]}

(***************************************************************************)
(* The validator as a pure function: the arrays it is applied to.          *)
(***************************************************************************)
\* rows of norm 1.00045, 0.999 (off by exactly the tolerance) and 1.1
CheckRows == {<<600, 800, 30>>, <<0, 999, 0>>, <<1100, 0, 0>>}

CheckScalars ==
    {Arr1(s) : s \in Vectors({-1, 0}, 0, MaxCheckLen)}
    \cup {Arr2(n, 1, [i \in 1..n |-> c]) : n \in 1..MaxCheckLen, c \in {-1, 0}}

CheckDirections ==
    {Arr2(Len(r), 3, Flatten(r)) : r \in Vectors(CheckRows, 0, MaxCheckLen)}
    \cup {Arr1([i \in 1..n |-> 1000]) : n \in 1..MaxCheckLen}
    \cup {Arr2(n, 2, Flatten([i \in 1..n |-> <<1000, 0>>])) : n \in 1..MaxCheckLen}
    \cup {Arr2(n, 2, Flatten([i \in 1..n |-> <<1100, 0>>])) : n \in 1..MaxCheckLen}

DefaultMinBShellDistance == 50

DefaultB0Threshold == 10

InitCheck ==
    /\ pc = "call"
    /\ kind = "check_acquisition_scheme"
    /\ \E p \in CheckScalars, g \in CheckDirections,
          d \in CheckScalars, D \in CheckScalars :
          args = [primary |-> p, gradient_directions |-> g, delta |-> d,
                  Delta |-> D,
                  min_b_shell_distance |-> DefaultMinBShellDistance,
                  b0_threshold |-> DefaultB0Threshold]
    /\ unified = NotUnified
    /\ conv = NotConverted
    /\ scheme = NoScheme
    /\ err = NoError
    /\ call = NoCall

\* one call of check_acquisition_scheme: it raises or returns, and writes
\* to none of its arguments
RunCheck ==
    /\ pc = "call"
    /\ kind = "check_acquisition_scheme"
    /\ err' = check_acquisition_scheme(args.primary, args.gradient_directions,
                                        args.delta, args.Delta)
    /\ pc' = "ret"
    /\ UNCHANGED <<kind, args, unified, conv, scheme, call>>

NextCheck == RunCheck

SpecCheck == InitCheck /\ [][NextCheck]_vars

(***************************************************************************)
(* The three factories.  Each runs unify_length_reference_delta_Delta,     *)
(* check_acquisition_scheme, the two conversions and the constructor, in   *)
(* this order; an exception ends the call.                                 *)
(***************************************************************************)
Factories ==
    {"acquisition_scheme_from_bvalues", "acquisition_scheme_from_qvalues",
     "acquisition_scheme_from_gradient_strengths"}

\* (delta, Delta) of a measurement: the timings that occur together in one
\* acquisition
TimingChoices == {{<<3, 4>>, <<3, 7>>}, {<<3, 7>>, <<6, 4>>}}

TimingSequences(n) == UNION {[1..n -> T] : T \in TimingChoices}

\* the values of the primary array, by factory
PrimaryValues(k) ==
    IF k = "acquisition_scheme_from_bvalues" THEN {0, 8, 1000}
    ELSE IF k = "acquisition_scheme_from_qvalues" THEN {1, 2}
    ELSE {0, 2}

\* (min_b_shell_distance, b0_threshold) passed to a factory
Settings(k) ==
    IF k = "acquisition_scheme_from_bvalues"
    THEN {<<DefaultMinBShellDistance, DefaultB0Threshold>>, <<7, 4>>,
          <<DefaultMinBShellDistance, 4>>}
    ELSE {<<DefaultMinBShellDistance, DefaultB0Threshold>>}

UnitRow == <<600, 800, 30>>

Directions(n) == Arr2(n, 3, Flatten([i \in 1..n |-> UnitRow]))

Arguments(p, g, d, D, s) ==
    [primary |-> p, gradient_directions |-> g, delta |-> d, Delta |-> D,
     min_b_shell_distance |-> s[1], b0_threshold |-> s[2]]

\* valid arguments with delta and Delta given as floats
FloatTimingCall ==
    \E n \in 1..MaxN :
        \E p \in [1..n -> PrimaryValues(kind)], s \in Settings(kind),
           D \in {4, 7} :
            args = Arguments(Arr1(p), Directions(n), PyFloat(3), PyFloat(D), s)

\* valid arguments with delta or Delta given as a Python int
IntTimingCall ==
    \E n \in 1..MaxN :
        \E p \in [1..n -> PrimaryValues(kind)], s \in Settings(kind),
           d \in {PyInt(3), PyFloat(3)}, D \in {PyInt(4), PyFloat(4)} :
            /\ ~ (IsFloat(d) /\ IsFloat(D))
            /\ args = Arguments(Arr1(p), Directions(n), d, D, s)

\* valid arguments with delta and Delta given as arrays
ArrayTimingCall ==
    \E n \in 1..MaxN :
        \E p \in [1..n -> PrimaryValues(kind)], t \in TimingSequences(n),
           s \in Settings(kind) :
            args = Arguments(Arr1(p), Directions(n),
                             Arr1([i \in 1..n |-> t[i][1]]),
                             Arr1([i \in 1..n |-> t[i][2]]), s)

\* arguments in one timing group with faults: a negative primary value, a
\* missing or non-unit gradient direction, a negative or missing delta
FaultyCall ==
    \E n \in 1..MaxN :
        \E p \in [1..n -> PrimaryValues(kind) \cup {-1}],
           g \in {Directions(n), Directions(n - 1),
                  Arr2(n, 3, Flatten([i \in 1..n |-> <<1100, 0, 0>>]))},
           d \in {Arr1([i \in 1..n |-> 3]), Arr1([i \in 1..n |-> -3]),
                  Arr1([i \in 1..n - 1 |-> 3])} :
            args = Arguments(Arr1(p), g, d, Arr1([i \in 1..n |-> 4]),
                             <<DefaultMinBShellDistance, DefaultB0Threshold>>)

Init ==
    /\ pc = "start"
    /\ kind \in Factories
    /\ (FloatTimingCall \/ IntTimingCall \/ ArrayTimingCall \/ FaultyCall)
    /\ unified = NotUnified
    /\ conv = NotConverted
    /\ scheme = NoScheme
    /\ err = NoError
    /\ call = NoCall

FactoryUnify ==
    /\ pc = "start"
    /\ kind \in Factories
    /\ LET u == unify_length_reference_delta_Delta(args.primary, args.delta,
                                                    args.Delta)
       IN  /\ unified' = IF u.done THEN u ELSE NotUnified
           /\ err' = u.raised
           /\ pc' = IF u.done THEN "unified" ELSE "raised"
    /\ UNCHANGED <<kind, args, conv, scheme, call>>

\* a factory that goes on after a failed unit-norm test
FactoryCheckUnitNormNotFatal ==
    /\ pc = "unified"
    /\ kind \in Factories
    /\ err' = check_acquisition_scheme(args.primary, args.gradient_directions,
                                        unified.delta_, unified.Delta_)
    /\ pc' = IF err' \in {NoError, "unit_vectors"} THEN "checked" ELSE "raised"
    /\ UNCHANGED <<kind, args, unified, conv, scheme, call>>

FactoryCheck ==
    /\ pc = "unified"
    /\ kind \in Factories
    /\ err' = check_acquisition_scheme(args.primary, args.gradient_directions,
                                        unified.delta_, unified.Delta_)
    /\ pc' = IF err' = NoError THEN "checked" ELSE "raised"
    /\ UNCHANGED <<kind, args, unified, conv, scheme, call>>

\* the two conversions of a factory; the q and G factories pass delta and
\* Delta as given, and a float broadcasts
Conversions(k, primary, delta, Delta, delta_, Delta_) ==
    LET n == Len(primary.data)
        x == primary.data
        d == Broadcast(delta, n)
        D == Broadcast(Delta, n)
    IN  IF k = "acquisition_scheme_from_bvalues"
        THEN [done |-> TRUE, bvalues |-> x,
              qvalues |-> q_from_b(x, delta_.data, Delta_.data),
              gradient_strengths |-> g_from_b(x, delta_.data, Delta_.data)]
        ELSE IF k = "acquisition_scheme_from_qvalues"
        THEN [done |-> TRUE, bvalues |-> b_from_q(x, d, D), qvalues |-> x,
              gradient_strengths |-> g_from_q(x, d)]
        ELSE [done |-> TRUE, bvalues |-> b_from_g(x, d, D),
              qvalues |-> q_from_g(x, d), gradient_strengths |-> x]

FactoryConvert ==
    /\ pc = "checked"
    /\ kind \in Factories
    /\ conv' = Conversions(kind, args.primary, args.delta, args.Delta,
                           unified.delta_, unified.Delta_)
    /\ pc' = "converted"
    /\ UNCHANGED <<kind, args, unified, scheme, err, call>>

FactoryConstruct ==
    /\ pc = "converted"
    /\ kind \in Factories
    /\ \E out \in MipyAcquisitionScheme(
                      conv.bvalues, args.gradient_directions, conv.qvalues,
                      conv.gradient_strengths, unified.delta_.data,
                      unified.Delta_.data, args.min_b_shell_distance,
                      args.b0_threshold) :
          /\ err' = out.raised
          /\ scheme' = out.scheme
          /\ call' = [active |-> FALSE, classifier_calls |-> out.classifier_calls]
          /\ pc' = IF out.raised = NoError THEN "done" ELSE "raised"
    /\ UNCHANGED <<kind, args, unified, conv>>

\* a factory as a function of its arguments: the set of its outcomes, each
\* with the error raised ("" when it returns) and the scheme returned
FactoryOutcomes(k, a) ==
    LET u == unify_length_reference_delta_Delta(a.primary, a.delta, a.Delta)
    IN  IF ~ u.done
        THEN {[raised |-> u.raised, scheme |-> NoScheme, classifier_calls |-> 0]}
        ELSE LET e == check_acquisition_scheme(a.primary, a.gradient_directions,
                                               u.delta_, u.Delta_)
             IN  IF e # NoError
                 THEN {[raised |-> e, scheme |-> NoScheme, classifier_calls |-> 0]}
                 ELSE LET c == Conversions(k, a.primary, a.delta, a.Delta,
                                           u.delta_, u.Delta_)
                      IN  MipyAcquisitionScheme(
                              c.bvalues, a.gradient_directions, c.qvalues,
                              c.gradient_strengths, u.delta_.data, u.Delta_.data,
                              a.min_b_shell_distance, a.b0_threshold)

acquisition_scheme_from_bvalues(bvalues, gradient_directions, delta, Delta, min_b_shell_distance, b0_threshold) ==
    FactoryOutcomes("acquisition_scheme_from_bvalues",
                    Arguments(bvalues, gradient_directions, delta, Delta,
                              <<min_b_shell_distance, b0_threshold>>))

Next == FactoryUnify \/ FactoryCheck \/ FactoryConvert \/ FactoryConstruct

Spec == Init /\ [][Next]_vars

(***************************************************************************)
(* The caller writes to an array it passed to the factory.  A factory      *)
(* hands the constructor the caller's primary array and the caller's       *)
(* gradient_directions; delta_ and Delta_ are copies and the converted     *)
(* arrays are new.  A write to an array shows in every attribute that is   *)
(* the same object.                                                        *)
(***************************************************************************)
\* the caller's argument that the factory k passes as the constructor's
\* parameter ("" when the factory passes an array of its own)
CallerArgument(k, parameter) ==
    IF parameter = "gradient_directions" THEN "gradient_directions"
    ELSE IF parameter = "bvalues" /\ k = "acquisition_scheme_from_bvalues"
        THEN "primary"
    ELSE IF parameter = "qvalues" /\ k = "acquisition_scheme_from_qvalues"
        THEN "primary"
    ELSE IF parameter = "gradient_strengths"
            /\ k = "acquisition_scheme_from_gradient_strengths"
        THEN "primary"
    ELSE ""

\* the attributes of the scheme s of factory k that are the caller's
\* argument a
AttributesSharing(k, s, a) ==
    {f \in DOMAIN s.same_object : CallerArgument(k, s.same_object[f]) = a}

\* array[i] = v
SetItem(array, i, v) == [array EXCEPT !.data[i] = v]

\* the attribute f of the scheme after the write of v to position i of
\* the array it is
AttributeAfterWrite(s, f, i, v) ==
    IF f = "gradient_directions" THEN SetItem(s[f], i, v)
    ELSE IF f = "shell_bvalues" THEN [s[f] EXCEPT ![i] = Frac(v, 1)]
    ELSE [s[f] EXCEPT ![i] = v]

\* the values the caller writes
WrittenValues(k, a) ==
    IF a = "primary" THEN PrimaryValues(k)
    ELSE IF a = "gradient_directions" THEN {0}
    ELSE {6}

\* after the factory has returned the caller writes v to the first entry
\* of one of the arrays it passed
CallerModifies ==
    /\ pc = "done"
    /\ kind \in Factories
    /\ \E a \in {"primary", "gradient_directions", "delta", "Delta"} :
          /\ IsArray(args[a])
          /\ \E v \in WrittenValues(kind, a) :
                /\ v # args[a].data[1]
                /\ args' = [args EXCEPT ![a] = SetItem(args[a], 1, v)]
                /\ scheme' =
                      [f \in DOMAIN scheme |->
                          IF f \in AttributesSharing(kind, scheme, a)
                          THEN AttributeAfterWrite(scheme, f, 1, v)
                          ELSE scheme[f]]
    /\ pc' = "modified"
    /\ UNCHANGED <<kind, unified, conv, err, call>>

NextAlias == Next \/ CallerModifies

SpecAlias == Init /\ [][NextAlias]_vars

(***************************************************************************)
(* The adapters between a scheme and a dipy GradientTable.  A Python       *)
(* object is a record with its class in the field type and its attributes  *)
(* in the other fields.  dipy's gradient_table keeps bvals, bvecs,          *)
(* small_delta and big_delta as they are given (the directions of a scheme  *)
(* have unit norm within dipy's tolerance).  dipy's b-values are in s/mm^2: *)
(* the b-value b of the model is b * 1e6 s/m^2 and b s/mm^2.                *)
(***************************************************************************)
NoObject == [type |-> "NoneType"]

isinstance(object, class) == object.type = class

\* the scheme s as a Python object
SchemeObject(s) == WithFields(s, [type |-> "MipyAcquisitionScheme"])

gradient_table(bvals, bvecs, small_delta, big_delta) ==
    [type |-> "GradientTable", bvals |-> bvals, bvecs |-> bvecs,
     small_delta |-> small_delta, big_delta |-> big_delta]

\* a b-value of the model in s/m^2
InSI(b) == b * Million

\* an adapter that returns None for an object of the wrong class
ReturnsNoneOnWrongInput == [raised |-> NoError, read |-> {}, result |-> NoObject]

\* raise ValueError(msg): no attribute of the argument is read, nothing is
\* returned
RaisesOnWrongInput == [raised |-> "input_type", read |-> {}, result |-> NoObject]

\* mipy_gradient_table.bvalues / 1e6
BvalsPerSquareMillimetre(bvalues) ==
    [i \in 1..Len(bvalues) |-> InSI(bvalues[i]) \div Million]

gtab_mipy2dipy(mipy_gradient_table) ==
    IF ~ isinstance(mipy_gradient_table, "MipyAcquisitionScheme")
    THEN RaisesOnWrongInput
    ELSE [raised |-> NoError,
          read |-> {"bvalues", "gradient_directions", "delta", "Delta"},
          result |-> gradient_table(
                         BvalsPerSquareMillimetre(mipy_gradient_table.bvalues),
                         mipy_gradient_table.gradient_directions,
                         mipy_gradient_table.delta,
                         mipy_gradient_table.Delta)]

\* the set of outcomes: the factory is called with its default
\* min_b_shell_distance and b0_threshold
gtab_dipy2mipy(dipy_gradient_table) ==
    IF ~ isinstance(dipy_gradient_table, "GradientTable")
    THEN {RaisesOnWrongInput}
    ELSE LET bvals == [i \in 1..Len(dipy_gradient_table.bvals) |->
                          (dipy_gradient_table.bvals[i] * Million) \div Million]
         IN  {[raised |-> out.raised,
               read |-> {"bvals", "bvecs", "small_delta", "big_delta"},
               result |-> IF out.raised = NoError
                          THEN SchemeObject(out.scheme) ELSE NoObject] :
                 out \in acquisition_scheme_from_bvalues(
                             Arr1(bvals), dipy_gradient_table.bvecs,
                             Arr1(dipy_gradient_table.small_delta),
                             Arr1(dipy_gradient_table.big_delta),
                             DefaultMinBShellDistance, DefaultB0Threshold)}

\* a GradientTable of one b0 measurement
SampleGradientTable == gradient_table(<<0>>, Directions(1), <<3>>, <<4>>)

\* gtab_mipy2dipy is called with the scheme a factory returned, or with an
\* object of another class
MipyToDipy ==
    /\ pc = "done"
    /\ kind \in Factories
    /\ \E object \in {SchemeObject(scheme), SampleGradientTable, NoObject} :
          LET out == gtab_mipy2dipy(object)
          IN  /\ call' = [active |-> TRUE, function |-> "gtab_mipy2dipy",
                          argument |-> object, read |-> out.read,
                          result |-> out.result]
              /\ err' = out.raised
              /\ pc' = IF out.raised = NoError THEN "exported" ELSE "raised"
    /\ UNCHANGED <<kind, args, unified, conv, scheme>>

\* gtab_dipy2mipy is called with the GradientTable gtab_mipy2dipy returned,
\* or with an object of another class
DipyToMipy ==
    /\ pc = "exported"
    /\ kind \in Factories
    /\ \E object \in {call.result, SchemeObject(scheme), NoObject} :
          \E out \in gtab_dipy2mipy(object) :
              /\ call' = [active |-> TRUE, function |-> "gtab_dipy2mipy",
                          argument |-> object, read |-> out.read,
                          result |-> out.result]
              /\ err' = out.raised
              /\ pc' = IF out.raised = NoError THEN "imported" ELSE "raised"
    /\ UNCHANGED <<kind, args, unified, conv, scheme>>

NextAdapter == Next \/ MipyToDipy \/ DipyToMipy

SpecAdapter == Init /\ [][NextAdapter]_vars

(***************************************************************************)
(* predict of FittedMultiCompartmentModel and of                           *)
(* FittedMultiCompartmentSphericalMeanModel                                *)
(* (src/dmipy/core/fitted_modeling_framework.py).  The dataset is a row of *)
(* voxels; an optional argument is a record with given = FALSE for None.   *)
(* The signal of the multi-compartment model is a positive number per      *)
(* sample that depends on the voxel's parameters.                          *)
(***************************************************************************)
FittedClasses ==
    {"FittedMultiCompartmentModel", "FittedMultiCompartmentSphericalMeanModel"}

None == [given |-> FALSE]

Given(value) == [given |-> TRUE, value |-> value]

\* the scheme the model was fitted with, and another one
FittingScheme == [bvalues |-> <<0, 1000, 1000>>, shell_bvalues |-> <<0, 1000>>]

OtherScheme == [bvalues |-> <<0, 1000>>, shell_bvalues |-> <<500>>]

\* self.model(acquisition_scheme, **parameters)
ModelSignal(parameters, N_samples) == [k \in 1..N_samples |-> parameters + k]

\* np.zeros
np_zeros(n) == [k \in 1..n |-> 0]

\* len(acquisition_scheme.bvalues), or len(acquisition_scheme.shell_bvalues)
\* in the spherical-mean class
NumberOfSamples(class, acquisition_scheme) ==
    IF class = "FittedMultiCompartmentModel"
    THEN Len(acquisition_scheme.bvalues)
    ELSE Len(acquisition_scheme.shell_bvalues)

\* mask = self.mask
FittingMask(self) == self.mask

predict(class, self, acquisition_scheme, S0, mask) ==
    LET scheme_ == IF acquisition_scheme.given THEN acquisition_scheme.value
                   ELSE self.scheme
        dataset_shape == Len(self.fitted_parameters_vector)
        S0_ == IF S0.given THEN [v \in 1..dataset_shape |-> S0.value] ELSE self.S0
        mask_ == IF mask.given THEN mask.value ELSE FittingMask(self)
        N_samples == NumberOfSamples(class, scheme_)
    IN  [v \in 1..dataset_shape |->
            IF mask_[v]
            THEN [k \in 1..N_samples |->
                     ModelSignal(self.fitted_parameters_vector[v], N_samples)[k]
                         * S0_[v]]
            ELSE np_zeros(N_samples)]

InitPredict ==
    /\ pc = "call"
    /\ kind \in FittedClasses
    /\ \E n \in 1..MaxVoxels :
          \E m \in [1..n -> BOOLEAN], S \in [1..n -> {1, 2}],
             f \in [1..n -> {1, 2}],
             mask \in {None} \cup {Given(x) : x \in [1..n -> BOOLEAN]},
             S0 \in {None, Given(3)},
             a \in {None, Given(OtherScheme)} :
              call = [active |-> TRUE, function |-> "predict",
                      self |-> [scheme |-> FittingScheme, S0 |-> S, mask |-> m,
                                fitted_parameters_vector |-> f],
                      acquisition_scheme |-> a, S0 |-> S0, mask |-> mask,
                      predicted_signal |-> <<>>]
    /\ args = [min_b_shell_distance |-> DefaultMinBShellDistance,
               b0_threshold |-> DefaultB0Threshold]
    /\ unified = NotUnified
    /\ conv = NotConverted
    /\ scheme = NoScheme
    /\ err = NoError

RunPredict ==
    /\ pc = "call"
    /\ kind \in FittedClasses
    /\ call' = [call EXCEPT !.predicted_signal =
                   predict(kind, call.self, call.acquisition_scheme, call.S0,
                           call.mask)]
    /\ pc' = "ret"
    /\ UNCHANGED <<kind, args, unified, conv, scheme, err>>

NextPredict == RunPredict

SpecPredict == InitPredict /\ [][NextPredict]_vars

(***************************************************************************)
(* get_sh_order_from_bval as a pure function: the b-values it is applied   *)
(* to lie around the entries of the table, at 0 and above all of them.     *)
(***************************************************************************)
FiniteBreakpoints == {ShBreakpoints[k] : k \in 1..(Len(ShBreakpoints) - 1)}

ShWholes ==
    {0, 6000} \cup UNION {(bp.whole - MaxShMargin)..(bp.whole + MaxShMargin) :
                             bp \in FiniteBreakpoints}

ShMicros ==
    {0, Million - 1}
        \cup UNION {(bp.micro - MaxShMargin)..(bp.micro + MaxShMargin) :
                       bp \in FiniteBreakpoints}

ShInputs ==
    {[whole |-> w, micro |-> m, rest |-> r] :
        w \in ShWholes, m \in ShMicros, r \in {<<0, 1>>, <<1, 2>>}}

InitSh ==
    /\ pc = "call"
    /\ kind = "get_sh_order_from_bval"
    /\ \E bval \in ShInputs :
          call = [active |-> TRUE, function |-> "get_sh_order_from_bval",
                  bval |-> bval, sh_order |-> 0]
    /\ args = [min_b_shell_distance |-> DefaultMinBShellDistance,
               b0_threshold |-> DefaultB0Threshold]
    /\ unified = NotUnified
    /\ conv = NotConverted
    /\ scheme = NoScheme
    /\ err = NoError

RunSh ==
    /\ pc = "call"
    /\ kind = "get_sh_order_from_bval"
    /\ call' = [call EXCEPT !.sh_order = get_sh_order_from_bval(call.bval)]
    /\ pc' = "ret"
    /\ UNCHANGED <<kind, args, unified, conv, scheme, err>>

NextSh == RunSh

SpecSh == InitSh /\ [][NextSh]_vars

(***************************************************************************)
(* The conditions of the validator's contract, stated on the input.        *)
(***************************************************************************)
PrimaryNotOneDim == ndim(args.primary) # 1

LengthDiffersFromDirections == len(args.primary) # len(args.gradient_directions)

LengthDiffersFromTiming ==
    len(args.primary) # len(args.delta) \/ len(args.primary) # len(args.Delta)

TimingNotOneDim == ndim(args.delta) # 1 \/ ndim(args.Delta) # 1

TimingNegative ==
    \/ \E i \in 1..size(args.delta) : args.delta.data[i] < 0
    \/ \E i \in 1..size(args.Delta) : args.Delta.data[i] < 0

DirectionsNotNx3 ==
    ~ (ndim(args.gradient_directions) = 2 /\ args.gradient_directions.shape[2] = 3)

PrimaryNegative == \E i \in 1..size(args.primary) : args.primary.data[i] < 0

\* a row whose norm is at most 0.999 or at least 1.001
DirectionsNotUnit ==
    /\ ndim(args.gradient_directions) = 2
    /\ \E i \in 1..len(args.gradient_directions) :
          LET n2 == SumSq(Row(args.gradient_directions, i))
          IN  n2 <= 998001 \/ n2 >= 1002001

CheckOrder ==
    <<"primary_ndim", "length_gradient_directions", "length_delta_Delta",
      "delta_Delta_ndim", "delta_Delta_sign", "gradient_directions_shape",
      "primary_sign", "unit_vectors">>

ViolatedConditions ==
    {k \in 1..8 :
        \/ k = 1 /\ PrimaryNotOneDim
        \/ k = 2 /\ LengthDiffersFromDirections
        \/ k = 3 /\ LengthDiffersFromTiming
        \/ k = 4 /\ TimingNotOneDim
        \/ k = 5 /\ TimingNegative
        \/ k = 6 /\ DirectionsNotNx3
        \/ k = 7 /\ PrimaryNegative
        \/ k = 8 /\ DirectionsNotUnit}

CheckReturned == pc = "ret" /\ kind = "check_acquisition_scheme"

\* C2 as stated: check_acquisition_scheme raises exactly when one of the
\* eight listed conditions holds, and it leaves its arguments as they were.
C2_RaisesIffViolation ==
    [][(pc = "call" /\ kind = "check_acquisition_scheme" /\ pc' = "ret")
        => /\ args' = args
           /\ (err' # NoError) <=> (ViolatedConditions # {})]_vars

\* C2 (amended): for a primary array with at least one entry along its first
\* axis, check_acquisition_scheme raises exactly when one of the eight listed
\* conditions holds, and it leaves its arguments as they were.
C2_RaisesIffViolationNonEmpty ==
    [][(pc = "call" /\ kind = "check_acquisition_scheme" /\ pc' = "ret"
        /\ len(args.primary) >= 1)
        => /\ args' = args
           /\ (err' # NoError) <=> (ViolatedConditions # {})]_vars

\* the validator has rejected an input whose only fault is a row of norm 0.999
C2_Witness ==
    /\ CheckReturned
    /\ len(args.primary) >= 1
    /\ ViolatedConditions = {8}
    /\ err = "unit_vectors"
    /\ \A i \in 1..len(args.gradient_directions) :
          SumSq(Row(args.gradient_directions, i)) \in {998001, 1000900}

\* C3: with several conditions violated at once, the one error raised is the
\* error of the first violated condition in the fixed order.
C3_FirstViolationReported ==
    (CheckReturned /\ Cardinality(ViolatedConditions) >= 2)
        => err = CheckOrder[MinOfSet(ViolatedConditions)]

\* three conditions violated at once (timing sign, directions shape, primary
\* sign), none of them the first of the order: the timing sign is reported
C3_Witness ==
    /\ CheckReturned
    /\ ViolatedConditions = {5, 6, 7}
    /\ err = "delta_Delta_sign"

(***************************************************************************)
(* The shell classifier as a pure function.                                *)
(***************************************************************************)
ShellBvalues == 1..5

ShellDistances == {1, 2, 4}

InitShell ==
    /\ pc = "call"
    /\ kind = "calculate_shell_bvalues_and_indices"
    /\ \E b \in Vectors(ShellBvalues, 1, MaxShellLen), t \in ShellDistances :
          call = [active |-> TRUE, bvalues |-> b, max_distance |-> t,
                  shell_indices |-> <<>>, shell_bvalues |-> <<>>]
    /\ args = [min_b_shell_distance |-> DefaultMinBShellDistance,
               b0_threshold |-> DefaultB0Threshold]
    /\ unified = NotUnified
    /\ conv = NotConverted
    /\ scheme = NoScheme
    /\ err = NoError

RunShell ==
    /\ pc = "call"
    /\ kind = "calculate_shell_bvalues_and_indices"
    /\ IF LinkageRaises(call.bvalues)
       THEN /\ pc' = "raised"
            /\ err' = "linkage_single_observation"
            /\ UNCHANGED call
       ELSE /\ \E r \in calculate_shell_bvalues_and_indices(
                            call.bvalues, call.max_distance) :
                  call' = [call EXCEPT !.shell_indices = r.shell_indices,
                                       !.shell_bvalues = r.shell_bvalues]
            /\ pc' = "ret"
            /\ UNCHANGED err
    /\ UNCHANGED <<kind, args, unified, conv, scheme>>

NextShell == RunShell

SpecShell == InitShell /\ [][NextShell]_vars

(***************************************************************************)
(* The classifier's contract, stated on the sorted b-values.               *)
(***************************************************************************)
\* the next larger b-value of the input after v
NextBvalueAfter(b, v) == MinOfSet({w \in SeqRange(b) : w > v})

\* the b-values after which the sorted input has a gap wider than t
WideGaps(b, t) ==
    {v \in SeqRange(b) : v # MaxOfSet(SeqRange(b)) /\ NextBvalueAfter(b, v) - v > t}

\* positions i and j are linked by a chain of consecutive sorted b-values
\* with steps of at most t
Chained(b, t, i, j) ==
    \A v \in WideGaps(b, t) : ~ (v >= b[i] /\ v < b[j]) /\ ~ (v >= b[j] /\ v < b[i])

ShellReturned == pc = "ret" /\ kind = "calculate_shell_bvalues_and_indices"

\* C5: whenever the classifier returns (two or more b-values), two
\* measurements share a shell exactly when a chain of consecutive sorted
\* b-values with steps of at most max_distance links them, and the number of
\* shells is one more than the number of wider gaps.
C5_ShellsAreChains ==
    ShellReturned =>
        /\ Len(call.shell_indices) = Len(call.bvalues)
        /\ \A i, j \in 1..Len(call.bvalues) :
              (call.shell_indices[i] = call.shell_indices[j])
                  <=> Chained(call.bvalues, call.max_distance, i, j)
        /\ Cardinality(SeqRange(call.shell_indices))
              = 1 + Cardinality(WideGaps(call.bvalues, call.max_distance))
        /\ Len(call.shell_bvalues)
              = 1 + Cardinality(WideGaps(call.bvalues, call.max_distance))

\* the documented example: [1, 2, 4, 5] with max_distance 1 gives two shells
C5_Witness ==
    /\ ShellReturned
    /\ call.bvalues = <<1, 2, 4, 5>>
    /\ call.max_distance = 1
    /\ call.shell_indices = <<0, 0, 1, 1>>

(***************************************************************************)
(* Properties of a scheme returned by a factory.                           *)
(***************************************************************************)
Constructed == kind \in Factories /\ pc = "done" /\ scheme.built

Measurements == 1..Len(scheme.bvalues)

TimingOf(i) == <<scheme.delta[i], scheme.Delta[i]>>

TimingGroup(t) == {i \in Measurements : TimingOf(i) = t}

ShellMembers(ind) == {i \in Measurements : scheme.shell_indices[i] = ind}

ShellsInUse == {scheme.shell_indices[i] : i \in Measurements}

\* the mean b-value of the measurements carrying shell index ind
MeanOfMembers(ind) == np_mean(MaskedValues(scheme.bvalues, ShellMembers(ind)))

FirstMember(ind) == MinOfSet(ShellMembers(ind))

\* the number of shells of the measurement set: per timing group, one more
\* than the number of gaps wider than min_b_shell_distance
RECURSIVE SumOver(_, _)
SumOver(S, f) ==
    IF S = {} THEN 0
    ELSE LET x == CHOOSE y \in S : TRUE IN f[x] + SumOver(S \ {x}, f)

NumberOfShells ==
    LET groups == {TimingOf(i) : i \in Measurements}
    IN  SumOver(groups,
                [t \in groups |->
                    1 + Cardinality(WideGaps(
                            MaskedValues(scheme.bvalues, TimingGroup(t)),
                            scheme.min_b_shell_distance))])

\* C1: in a scheme built by a factory every measurement has one shell index,
\* and the indices in use are exactly 0 .. S-1 for the S shells.
C1_ShellIndicesPartition ==
    Constructed =>
        /\ Len(scheme.shell_indices) = Len(scheme.bvalues)
        /\ ShellsInUse = 0..(NumberOfShells - 1)

\* two timing groups of two shells each: four shells, indices 0..3
C1_Witness ==
    /\ Constructed
    /\ Cardinality({TimingOf(i) : i \in Measurements}) = 2
    /\ NumberOfShells = 4
    /\ ShellsInUse = 0..3

\* C4: in every factory a validation error is raised before any conversion
\* and before the constructor runs; conversions and constructor only ever
\* run on input that passed the validator.
C4_NothingDerivedOnValidationError ==
    kind \in Factories =>
        /\ err \in ValidationErrors
              => pc = "raised" /\ ~ conv.done /\ ~ scheme.built
        /\ (conv.done \/ scheme.built)
              => /\ unified.done
                 /\ check_acquisition_scheme(
                        args.primary, args.gradient_directions,
                        unified.delta_, unified.Delta_) = NoError

\* a q-value factory call with one gradient direction too few has raised the
\* length error
C4_Witness ==
    /\ kind = "acquisition_scheme_from_qvalues"
    /\ pc = "raised"
    /\ err = "length_gradient_directions"
    /\ len(args.primary) = len(args.gradient_directions) + 1
    /\ ~ conv.done
    /\ ~ scheme.built

\* C6: shell indices are ordered by timing group (in the order the groups
\* are processed, the sorted order of np.unique) and, within a group, by
\* the mean b-value of the shell.
C6_OrderedByGroupThenMean ==
    Constructed =>
        \A a, b \in ShellsInUse :
            LET i == FirstMember(a)
                j == FirstMember(b)
            IN  /\ PairLess(TimingOf(i), TimingOf(j)) => a < b
                /\ (TimingOf(i) = TimingOf(j)
                    /\ FracLess(MeanOfMembers(a), MeanOfMembers(b))) => a < b

\* measurements given in descending order of group and b-value
C6_Witness ==
    /\ Constructed
    /\ scheme.bvalues = <<1000, 0, 1000, 0>>
    /\ scheme.Delta = <<7, 7, 4, 4>>
    /\ scheme.shell_indices = <<3, 2, 1, 0>>

\* the position at which the timing of measurement i first occurs
FirstAppearance(i) == MinOfSet(TimingGroup(TimingOf(i)))

\* C7 as stated: a timing group that first appears earlier in the
\* measurement sequence has the smaller shell indices.
C7_GroupsInOrderOfFirstAppearance ==
    Constructed =>
        \A i, j \in Measurements :
            FirstAppearance(i) < FirstAppearance(j)
                => scheme.shell_indices[i] < scheme.shell_indices[j]

\* C7 (amended): the timing groups are numbered in ascending order of
\* (delta, Delta), delta compared first, wherever they first appear.
C7_GroupsInSortedOrder ==
    Constructed =>
        \A i, j \in Measurements :
            (\/ scheme.delta[i] < scheme.delta[j]
             \/ scheme.delta[i] = scheme.delta[j] /\ scheme.Delta[i] < scheme.Delta[j])
                => scheme.shell_indices[i] < scheme.shell_indices[j]

\* the group with the larger delta (and smaller Delta) appears first and is
\* numbered last
C7_Witness ==
    /\ Constructed
    /\ Len(scheme.bvalues) = 4
    /\ scheme.delta = <<6, 3, 6, 3>>
    /\ scheme.Delta = <<4, 7, 4, 7>>
    /\ scheme.shell_indices[1] > scheme.shell_indices[2]

\* C8: measurements with different (delta, Delta) never share a shell index.
C8_ShellsWithinOneTiming ==
    Constructed =>
        \A i, j \in Measurements :
            scheme.shell_indices[i] = scheme.shell_indices[j]
                => (scheme.delta[i] = scheme.delta[j]
                    /\ scheme.Delta[i] = scheme.Delta[j])

\* equal b-values under two timings that differ in Delta only: two shells
C8_Witness ==
    /\ Constructed
    /\ scheme.bvalues = <<0, 0, 0, 0>>
    /\ scheme.delta = <<3, 3, 3, 3>>
    /\ scheme.Delta = <<4, 7, 7, 4>>
    /\ scheme.shell_indices = <<0, 1, 1, 0>>

\* C9 as stated: every representative value of a shell, the b-value
\* included, is the value of the shell's first member.
C9_RepresentativesOfFirstMember ==
    Constructed =>
        \A ind \in ShellsInUse :
            /\ scheme.shell_bvalues[ind + 1] = Frac(scheme.bvalues[FirstMember(ind)], 1)
            /\ scheme.shell_qvalues[ind + 1] = scheme.qvalues[FirstMember(ind)]
            /\ scheme.shell_gradient_strengths[ind + 1]
                  = scheme.gradient_strengths[FirstMember(ind)]
            /\ scheme.shell_delta[ind + 1] = scheme.delta[FirstMember(ind)]
            /\ scheme.shell_Delta[ind + 1] = scheme.Delta[FirstMember(ind)]

\* C9 (amended): the representative q-value, gradient strength, delta and
\* Delta of a shell are those of its first member; the representative
\* b-value is the mean b-value of the shell's members.
C9_RepresentativesFirstMemberAndMean ==
    Constructed =>
        \A ind \in ShellsInUse :
            /\ scheme.shell_bvalues[ind + 1] = MeanOfMembers(ind)
            /\ scheme.shell_qvalues[ind + 1] = scheme.qvalues[FirstMember(ind)]
            /\ scheme.shell_gradient_strengths[ind + 1]
                  = scheme.gradient_strengths[FirstMember(ind)]
            /\ scheme.shell_delta[ind + 1] = scheme.delta[FirstMember(ind)]
            /\ scheme.shell_Delta[ind + 1] = scheme.Delta[FirstMember(ind)]

\* a shell whose members differ in q-value and b-value
C9_Witness ==
    /\ Constructed
    /\ kind = "acquisition_scheme_from_qvalues"
    /\ scheme.qvalues = <<2, 1>>
    /\ scheme.shell_indices = <<0, 0>>
    /\ scheme.shell_qvalues = <<2>>
    /\ scheme.shell_bvalues # <<Frac(scheme.bvalues[1], 1)>>

\* C10: for input that passed the validator, has more than one measurement
\* and at least two measurements in every timing group, the factory returns
\* a scheme whose shell_bvalues has one entry per shell, the mean b-value of
\* that shell, whatever the numbers of shells of the groups.
C10_ShellBvaluesFlatMeans ==
    (/\ kind \in Factories
     /\ pc \in {"done", "raised"}
     /\ conv.done
     /\ Len(conv.bvalues) > 1
     /\ \A i \in 1..Len(conv.bvalues) :
           \E j \in 1..Len(conv.bvalues) :
               /\ j # i
               /\ unified.delta_.data[j] = unified.delta_.data[i]
               /\ unified.Delta_.data[j] = unified.Delta_.data[i])
        => /\ scheme.built
           /\ Len(scheme.shell_bvalues) = MaxOfSet(ShellsInUse) + 1
           /\ \A ind \in ShellsInUse : scheme.shell_bvalues[ind + 1] = MeanOfMembers(ind)

(***************************************************************************)
(* b0 measurements and the warning.                                        *)
(***************************************************************************)
DerivedFields ==
    {"shell_indices", "shell_bvalues", "shell_b0_mask", "shell_qvalues",
     "shell_gradient_strengths", "shell_delta", "shell_Delta",
     "shell_sh_orders", "shell_sh_matrices"}

\* the constructor has raised
ConstructorRaised == kind \in Factories /\ pc = "raised" /\ conv.done

\* C11: in a scheme built by a factory b0_mask marks exactly the
\* measurements with bvalues <= b0_threshold and number_of_b0s counts them;
\* the warning is given exactly when there is none, the scheme then has all
\* its derived fields, and the constructor never raises an error of its own
\* for the lack of b0 measurements.
C11_B0MaskAndWarning ==
    /\ Constructed =>
          /\ Len(scheme.b0_mask) = Len(scheme.bvalues)
          /\ \A i \in Measurements :
                scheme.b0_mask[i] <=> (scheme.bvalues[i] <= scheme.b0_threshold)
          /\ scheme.number_of_b0s
                = Cardinality({i \in Measurements :
                                  scheme.bvalues[i] <= scheme.b0_threshold})
          /\ scheme.warned <=> (scheme.number_of_b0s = 0)
          /\ DerivedFields \subseteq DOMAIN scheme
          /\ Len(scheme.shell_bvalues) = MaxOfSet(ShellsInUse) + 1
    /\ ConstructorRaised
          => err \in {"linkage_single_observation", "shell_bvalues_ragged"}

\* a scheme of four measurements without a b0 measurement: warned and built
C11_Witness ==
    /\ Constructed
    /\ scheme.number_of_b0s = 0
    /\ scheme.warned
    /\ scheme.bvalues = <<1000, 8, 8, 1000>>
    /\ scheme.b0_threshold = 4
    /\ scheme.shell_indices = <<1, 0, 0, 1>>
    /\ scheme.shell_b0_mask = <<FALSE, FALSE>>

(***************************************************************************)
(* Spherical-harmonics orders and matrices of the shells.                  *)
(***************************************************************************)
Shells == 0..(Len(scheme.shell_bvalues) - 1)

\* C12: in a scheme built by a factory a shell has an entry in
\* shell_sh_matrices and an order in 2..14 exactly when its shell_b0_mask
\* entry is false; a shell flagged b0 has no matrix and the order 0.
C12_ShMatrixIffNotB0Shell ==
    Constructed =>
        \A ind \in Shells :
            /\ (ind \in DOMAIN scheme.shell_sh_matrices)
                  <=> ~ scheme.shell_b0_mask[ind + 1]
            /\ scheme.shell_b0_mask[ind + 1]
                  => scheme.shell_sh_orders[ind + 1] = 0
            /\ ~ scheme.shell_b0_mask[ind + 1]
                  => scheme.shell_sh_orders[ind + 1] \in {2, 4, 6, 8, 10, 12, 14}

(***************************************************************************)
(* delta and Delta given as single numbers.                                *)
(***************************************************************************)
\* the array of length n whose entries all equal the single number x
BroadcastArray(x, n) == IF IsArray(x) THEN x ELSE Arr1([i \in 1..n |-> x.data[1]])

\* the arguments of the call with delta and Delta written out as arrays
ArgumentsWithArrays ==
    [args EXCEPT !.delta = BroadcastArray(args.delta, len(args.primary)),
                 !.Delta = BroadcastArray(args.Delta, len(args.primary))]

FactoryEnded == kind \in Factories /\ pc \in {"done", "raised"}

\* C18: a factory called with delta or Delta as a single number ends as the
\* same factory does when called with the arrays of length N holding that
\* number: the same scheme, or the same error.
C18_ScalarBroadcast ==
    (FactoryEnded /\ (~ IsArray(args.delta) \/ ~ IsArray(args.Delta)))
        => \E out \in FactoryOutcomes(kind, ArgumentsWithArrays) :
              out.raised = err /\ out.scheme = scheme

(***************************************************************************)
(* The adapters.                                                           *)
(***************************************************************************)
AdapterEnded(function) ==
    /\ call.active
    /\ call.function = function
    /\ pc \in {"exported", "imported", "raised"}

\* C13: gtab_dipy2mipy applied to the GradientTable that gtab_mipy2dipy made
\* of a scheme built by a factory returns a scheme with the same bvalues,
\* gradient_directions, delta and Delta, measurement by measurement.
C13_RoundTripPreserves ==
    (AdapterEnded("gtab_dipy2mipy") /\ isinstance(call.argument, "GradientTable"))
        => /\ pc = "imported"
           /\ isinstance(call.result, "MipyAcquisitionScheme")
           /\ call.result.bvalues = scheme.bvalues
           /\ call.result.gradient_directions = scheme.gradient_directions
           /\ call.result.delta = scheme.delta
           /\ call.result.Delta = scheme.Delta

\* C14: an adapter called with an object that is not of the class it
\* converts raises the input error, has read no attribute of the object and
\* returns nothing.
C14_WrongTypeRejected ==
    /\ (AdapterEnded("gtab_mipy2dipy")
        /\ ~ isinstance(call.argument, "MipyAcquisitionScheme"))
          => pc = "raised" /\ err = "input_type" /\ call.read = {}
             /\ ~ isinstance(call.result, "GradientTable")
    /\ (AdapterEnded("gtab_dipy2mipy")
        /\ ~ isinstance(call.argument, "GradientTable"))
          => pc = "raised" /\ err = "input_type" /\ call.read = {}
             /\ ~ isinstance(call.result, "MipyAcquisitionScheme")

\* gtab_dipy2mipy has been called with a scheme and has raised
C14_Witness ==
    /\ AdapterEnded("gtab_dipy2mipy")
    /\ isinstance(call.argument, "MipyAcquisitionScheme")
    /\ call.argument.bvalues = <<0, 1000>>
    /\ pc = "raised"
    /\ err = "input_type"

(***************************************************************************)
(* The derived fields after the caller's write.                            *)
(***************************************************************************)
ShellFields ==
    {"shell_indices", "shell_bvalues", "shell_b0_mask", "shell_qvalues",
     "shell_gradient_strengths", "shell_delta", "shell_Delta", "b0_mask"}

\* C15: a write of the caller to an array it passed to the factory changes
\* none of shell_indices, shell_bvalues, shell_b0_mask, shell_qvalues,
\* shell_gradient_strengths, shell_delta, shell_Delta and b0_mask of the
\* scheme the factory returned, whatever the number of measurements.
C15_DerivedFieldsKeptOnCallerWrite ==
    [][(pc = "done" /\ pc' = "modified")
        => \A f \in ShellFields : scheme'[f] = scheme[f]]_vars

(***************************************************************************)
(* predict without a mask.                                                 *)
(***************************************************************************)
PredictReturned == pc = "ret" /\ kind \in FittedClasses

\* the scheme and the S0 that predict uses
PredictScheme ==
    IF call.acquisition_scheme.given THEN call.acquisition_scheme.value
    ELSE call.self.scheme

PredictS0(v) == IF call.S0.given THEN call.S0.value ELSE call.self.S0[v]

\* C16: predict called without a mask returns, for every voxel of the
\* dataset, the model signal of the voxel's fitted parameters times its S0,
\* whatever the fitting mask.
C16_PredictWithoutMaskCoversAllVoxels ==
    (PredictReturned /\ ~ call.mask.given)
        => \A v \in 1..Len(call.self.fitted_parameters_vector) :
              LET n == NumberOfSamples(kind, PredictScheme)
              IN  call.predicted_signal[v]
                      = [k \in 1..n |->
                            ModelSignal(call.self.fitted_parameters_vector[v], n)[k]
                                * PredictS0(v)]

(***************************************************************************)
(* The step table of get_sh_order_from_bval.                               *)
(***************************************************************************)
ShReturned == pc = "ret" /\ kind = "get_sh_order_from_bval"

\* the b-value x is at most the b-value y
BvalLeq(x, y) ==
    \/ x.whole < y.whole
    \/ x.whole = y.whole /\ x.micro < y.micro
    \/ x.whole = y.whole /\ x.micro = y.micro
          /\ x.rest[1] * y.rest[2] <= y.rest[1] * x.rest[2]

\* the finite table entries that are at most the b-value
BreakpointsUpTo(bval) ==
    {bp \in FiniteBreakpoints :
        BvalLeq([whole |-> bp.whole, micro |-> bp.micro, rest |-> <<0, 1>>], bval)}

\* C17: for a b-value >= 0 get_sh_order_from_bval returns an even order in
\* 2..14, two more for every finite table entry that is at most the b-value
\* (equal to an entry gives the next higher order, above all entries gives
\* 14), and the order never decreases as the b-value grows.
C17_ShOrderStepTable ==
    ShReturned =>
        /\ call.sh_order \in {2, 4, 6, 8, 10, 12, 14}
        /\ call.sh_order = 2 + 2 * Cardinality(BreakpointsUpTo(call.bval))
        /\ \A other \in ShInputs :
              BvalLeq(other, call.bval)
                  => get_sh_order_from_bval(other) <= call.sh_order

\* a b-value equal to the first table entry, 2.02020202e+08, has order 4
C17_Witness ==
    /\ ShReturned
    /\ call.bval = [whole |-> 202, micro |-> 20202, rest |-> <<0, 1>>]
    /\ call.sh_order = 4

(***************************************************************************)
(* A scheme of one measurement.                                            *)
(***************************************************************************)
\* the constructor has run (it returned or raised)
ConstructorEnded == kind \in Factories /\ conv.done /\ pc \in {"done", "raised"}

\* C19: for a single measurement the constructor returns without a call of
\* the shell classifier; shell_indices is [0], the representative values of
\* the shell are the measurement's own, and shell_b0_mask is [True] exactly
\* when the b-value is <= b0_threshold, as b0_mask is.
C19_SingleMeasurement ==
    (ConstructorEnded /\ Len(conv.bvalues) = 1)
        => /\ pc = "done"
           /\ call.classifier_calls = 0
           /\ scheme.shell_indices = <<0>>
           /\ scheme.shell_bvalues = <<Frac(scheme.bvalues[1], 1)>>
           /\ scheme.shell_qvalues = scheme.qvalues
           /\ scheme.shell_gradient_strengths = scheme.gradient_strengths
           /\ scheme.shell_delta = scheme.delta
           /\ scheme.shell_Delta = scheme.Delta
           /\ scheme.shell_b0_mask = <<scheme.bvalues[1] <= scheme.b0_threshold>>
           /\ scheme.shell_b0_mask = scheme.b0_mask

\* one measurement above the threshold: a single shell that is not b0
C19_Witness ==
    /\ Constructed
    /\ scheme.bvalues = <<8>>
    /\ scheme.b0_threshold = 4
    /\ scheme.shell_indices = <<0>>
    /\ scheme.shell_b0_mask = <<FALSE>>
    /\ call.classifier_calls = 0

\* C20: in a scheme built by a factory the b0 flag of every measurement is
\* the b0 flag of its shell: b0_mask[i] = shell_b0_mask[shell_indices[i]].
C20_B0MasksAgree ==
    Constructed =>
        \A i \in Measurements :
            scheme.b0_mask[i] = scheme.shell_b0_mask[scheme.shell_indices[i] + 1]

(***************************************************************************)
(* The derived classification across the adapters.                         *)
(***************************************************************************)
\* gtab_dipy2mipy has returned a scheme for the GradientTable made of the
\* factory's scheme
RoundTripReturned ==
    /\ AdapterEnded("gtab_dipy2mipy")
    /\ isinstance(call.argument, "GradientTable")
    /\ pc = "imported"

\* C21: the scheme that gtab_dipy2mipy returns for the GradientTable that
\* gtab_mipy2dipy made of a scheme built by a factory, with whatever
\* min_b_shell_distance and b0_threshold, has the same shell_indices, the
\* same b0_mask and the same number_of_b0s as that scheme.
C21_RoundTripKeepsClassification ==
    RoundTripReturned
        => /\ call.result.shell_indices = scheme.shell_indices
           /\ call.result.b0_mask = scheme.b0_mask
           /\ call.result.number_of_b0s = scheme.number_of_b0s

====
